---- MODULE Spec2Model ----
(***************************************************************************)
(* Model of package wire's error types (src/wire/error.go): the ErrorCode  *)
(* enumeration with its name table, and the *MessageError value with its   *)
(* constructors and its Error / Is / Unwrap methods.                       *)
(*                                                                         *)
(* The package keeps no mutable state of its own.  The state of the model  *)
(* is what a caller holds: a *MessageError variable (nil until a           *)
(* constructor's result is stored in it), how that value was built, and    *)
(* the outcome of the last call made.  Every function of the package is an *)
(* operator translated from its code, and there is one action per          *)
(* function, which applies it to inputs drawn from small sets.             *)
(***************************************************************************)
EXTENDS Integers, Sequences, FiniteSets, TLC

VARIABLES err, built, last

vars == <<err, built, last>>

(***************************************************************************)
(* Bounds of the model: how far below and above the declared range the     *)
(* ErrorCode values (an int in the source) are drawn from.                 *)
(***************************************************************************)
MaxBelow == 1
MaxAbove == 1

(***************************************************************************)
(* The const block, error.go:15-46.  A constant's value is iota: its       *)
(* position in the block, counted from zero.                               *)
(***************************************************************************)
ErrorCodeDecls ==
    << "ErrVarBytesTooLong", "ErrMsgInvalidForPVer", "ErrInvalidMsg",
       "ErrMalformedStrictString", "ErrTooManyManyMixPairReqs",
       "ErrMixPairReqScriptClassTooLong", "ErrTooManyMixPairReqUTXOs",
       "ErrTooManyPrevMixMsgs" >>

Iota(name) == (CHOOSE i \in 1..Len(ErrorCodeDecls) : ErrorCodeDecls[i] = name) - 1

ErrVarBytesTooLong == Iota("ErrVarBytesTooLong")
ErrMsgInvalidForPVer == Iota("ErrMsgInvalidForPVer")
ErrInvalidMsg == Iota("ErrInvalidMsg")
ErrMalformedStrictString == Iota("ErrMalformedStrictString")
ErrTooManyManyMixPairReqs == Iota("ErrTooManyManyMixPairReqs")
ErrMixPairReqScriptClassTooLong == Iota("ErrMixPairReqScriptClassTooLong")
ErrTooManyMixPairReqUTXOs == Iota("ErrTooManyMixPairReqUTXOs")
ErrTooManyPrevMixMsgs == Iota("ErrTooManyPrevMixMsgs")

DeclaredCodes ==
    { ErrVarBytesTooLong, ErrMsgInvalidForPVer, ErrInvalidMsg,
      ErrMalformedStrictString, ErrTooManyManyMixPairReqs,
      ErrMixPairReqScriptClassTooLong, ErrTooManyMixPairReqUTXOs,
      ErrTooManyPrevMixMsgs }

(***************************************************************************)
(* Inputs.  ErrorCode is an int, so a caller can hold values no constant   *)
(* declares; function names and descriptions are free strings.             *)
(***************************************************************************)
Codes == (0 - MaxBelow) .. (Len(ErrorCodeDecls) - 1 + MaxAbove)
Funcs == {"", "decodeFoo"}
Descs == {"bad thing", "exceeds max"}

(***************************************************************************)
(* Values.  A *MessageError is nil or points to a struct (error.go:94-98). *)
(* An error interface value is nil, holds an ErrorCode, holds a            *)
(* *MessageError (which may itself be a nil pointer), or holds a value of  *)
(* some type this package does not define.                                 *)
(***************************************************************************)
NilPtr == [nil |-> TRUE]
Ptr(m) == [nil |-> FALSE, val |-> m]

MessageError(f, c, desc) == [Func |-> f, ErrorCode |-> c, Description |-> desc]

NilError == [kind |-> "nil"]
OtherError == [kind |-> "other"]
ErrorCodeErr(c) == [kind |-> "ErrorCode", code |-> c]
MessageErrorErr(p) == [kind |-> "MessageError", ptr |-> p]

(***************************************************************************)
(* The outcome of a call: a returned value, or the run-time panic of a nil *)
(* pointer dereference.                                                    *)
(***************************************************************************)
Return(v) == [panicked |-> FALSE, ret |-> v]
Panic == [panicked |-> TRUE, ret |-> "nil pointer dereference"]

(***************************************************************************)
(* fmt.Sprintf's %d verb: the decimal digits of an int, with a minus sign  *)
(* for a negative one.                                                     *)
(***************************************************************************)
Digits == << "0", "1", "2", "3", "4", "5", "6", "7", "8", "9" >>

RECURSIVE NatToString(_)
NatToString(n) ==
    IF n < 10 THEN Digits[n + 1]
    ELSE NatToString(n \div 10) \o Digits[(n % 10) + 1]

IntToString(n) == IF n < 0 THEN "-" \o NatToString(0 - n) ELSE NatToString(n)

(***************************************************************************)
(* errorCodeStrings, error.go:49-54, and a Go map read: the zero value ""  *)
(* for a key the map does not hold.                                        *)
(***************************************************************************)
errorCodeStrings_NoPrevMixMsgs ==
    [e \in { ErrTooManyManyMixPairReqs, ErrMixPairReqScriptClassTooLong,
             ErrTooManyMixPairReqUTXOs } |->
        CASE e = ErrTooManyManyMixPairReqs -> "ErrTooManyManyMixPairReqs"
          [] e = ErrMixPairReqScriptClassTooLong -> "ErrMixPairReqScriptClassTooLong"
          [] e = ErrTooManyMixPairReqUTXOs -> "ErrTooManyMixPairReqUTXOs"]

errorCodeStrings ==
    [e \in { ErrTooManyManyMixPairReqs, ErrMixPairReqScriptClassTooLong,
             ErrTooManyMixPairReqUTXOs, ErrTooManyPrevMixMsgs } |->
        CASE e = ErrTooManyManyMixPairReqs -> "ErrTooManyManyMixPairReqs"
          [] e = ErrMixPairReqScriptClassTooLong -> "ErrMixPairReqScriptClassTooLong"
          [] e = ErrTooManyMixPairReqUTXOs -> "ErrTooManyMixPairReqUTXOs"
          [] e = ErrTooManyPrevMixMsgs -> "ErrTooManyPrevMixMsgs"]

MapLookup(m, k) == IF k \in DOMAIN m THEN m[k] ELSE ""

(***************************************************************************)
(* func (e ErrorCode) String() string, error.go:57-62.                     *)
(***************************************************************************)
ErrorCodeString_NoOrdinal(e) ==
    LET s == MapLookup(errorCodeStrings, e)
    IN  IF s # "" THEN Return(s) ELSE Return("Unknown ErrorCode")

ErrorCodeString(e) ==
    LET s == MapLookup(errorCodeStrings, e)
    IN  IF s # "" THEN Return(s)
        ELSE Return("Unknown ErrorCode (" \o IntToString(e) \o ")")

(***************************************************************************)
(* func (e ErrorCode) Error() string, error.go:65-67.                      *)
(***************************************************************************)
ErrorCodeError(e) == ErrorCodeString(e)

(***************************************************************************)
(* func (e ErrorCode) Is(target error) bool, error.go:74-85.  The type     *)
(* switch takes the *MessageError case for a nil pointer of that type too, *)
(* and reading target.ErrorCode through it panics.                         *)
(***************************************************************************)
ErrorCodeIs_AnyMessageError(e, target) ==
    CASE target.kind = "MessageError" ->
            IF target.ptr.nil THEN Panic ELSE Return(TRUE)
      [] target.kind = "ErrorCode" -> Return(e = target.code)
      [] OTHER -> Return(FALSE)

ErrorCodeIs(e, target) ==
    CASE target.kind = "MessageError" ->
            IF target.ptr.nil THEN Panic
            ELSE Return(e = target.ptr.val.ErrorCode)
      [] target.kind = "ErrorCode" -> Return(e = target.code)
      [] OTHER -> Return(FALSE)

(***************************************************************************)
(* func (e *MessageError) Error() string, error.go:101-106.                *)
(***************************************************************************)
MessageErrorError_AlwaysPrefix(e) ==
    IF e.nil THEN Panic
    ELSE Return(e.val.Func \o ": " \o e.val.Description)

MessageErrorError_WithCode(e) ==
    IF e.nil THEN Panic
    ELSE IF e.val.Func # ""
         THEN Return(e.val.Func \o ": " \o e.val.Description
                        \o " (" \o IntToString(e.val.ErrorCode) \o ")")
         ELSE Return(e.val.Description)

MessageErrorError(e) ==
    IF e.nil THEN Panic
    ELSE IF e.val.Func # ""
         THEN Return(e.val.Func \o ": " \o e.val.Description)
         ELSE Return(e.val.Description)

(***************************************************************************)
(* func messageError(f string, desc string) *MessageError,                 *)
(* error.go:109-111.  The ErrorCode field is left at int's zero value.     *)
(***************************************************************************)
messageError_InvalidMsg(f, desc) == Ptr(MessageError(f, ErrInvalidMsg, desc))

messageError(f, desc) == Ptr(MessageError(f, 0, desc))

(***************************************************************************)
(* func messageErrorWithCode(funcName string, c ErrorCode, desc string),   *)
(* error.go:114-116.                                                       *)
(***************************************************************************)
messageErrorWithCode(funcName, c, desc) == Ptr(MessageError(funcName, c, desc))

(***************************************************************************)
(* func (e *MessageError) Is(target error) bool, error.go:123-134.  The    *)
(* receiver is read only in the two recognised cases.                      *)
(***************************************************************************)
MessageErrorIs_WholeStruct(e, target) ==
    CASE target.kind = "MessageError" ->
            IF e.nil \/ target.ptr.nil THEN Panic
            ELSE Return(e.val = target.ptr.val)
      [] target.kind = "ErrorCode" ->
            IF e.nil THEN Panic ELSE Return(target.code = e.val.ErrorCode)
      [] OTHER -> Return(FALSE)

MessageErrorIs_DefaultDeref(e, target) ==
    CASE target.kind = "MessageError" ->
            IF e.nil \/ target.ptr.nil THEN Panic
            ELSE Return(e.val.ErrorCode = target.ptr.val.ErrorCode)
      [] target.kind = "ErrorCode" ->
            IF e.nil THEN Panic ELSE Return(target.code = e.val.ErrorCode)
      [] OTHER ->
            IF e.nil THEN Panic ELSE Return(e.val.ErrorCode # ErrVarBytesTooLong)

MessageErrorIs(e, target) ==
    CASE target.kind = "MessageError" ->
            IF e.nil \/ target.ptr.nil THEN Panic
            ELSE Return(e.val.ErrorCode = target.ptr.val.ErrorCode)
      [] target.kind = "ErrorCode" ->
            IF e.nil THEN Panic ELSE Return(target.code = e.val.ErrorCode)
      [] OTHER -> Return(FALSE)

(***************************************************************************)
(* func (e *MessageError) Unwrap() error, error.go:138-140.  The ErrorCode *)
(* is returned boxed in an error interface value.                          *)
(***************************************************************************)
MessageErrorUnwrap_NilForZero(e) ==
    IF e.nil THEN Panic
    ELSE IF e.val.ErrorCode = 0 THEN Return(NilError)
         ELSE Return(ErrorCodeErr(e.val.ErrorCode))

MessageErrorUnwrap(e) ==
    IF e.nil THEN Panic ELSE Return(ErrorCodeErr(e.val.ErrorCode))

(***************************************************************************)
(* The error values a caller passes as the target of Is: nil, a foreign    *)
(* error, a bare ErrorCode, a nil *MessageError, the *MessageError it      *)
(* holds, and (for targets of Is on a *MessageError) the result of either  *)
(* constructor.                                                            *)
(***************************************************************************)
Targets ==
    {NilError, OtherError, MessageErrorErr(NilPtr), MessageErrorErr(err)}
        \cup {ErrorCodeErr(c) : c \in Codes}

BuiltTargets ==
    {MessageErrorErr(messageError(f, desc)) : f \in Funcs, desc \in Descs}
        \cup {MessageErrorErr(messageErrorWithCode(f, c, desc)) :
                f \in Funcs, c \in Codes, desc \in Descs}

Call(op, recv, target, out) ==
    [op |-> op, recv |-> recv, target |-> target,
     ret |-> out.ret, panicked |-> out.panicked]

(***************************************************************************)
(* Initially the caller's *MessageError variable is nil.                   *)
(***************************************************************************)
Init ==
    /\ err = NilPtr
    /\ built = [ctor |-> "none"]
    /\ last = Call("none", NilPtr, NilError, Return(FALSE))

(***************************************************************************)
(* One action per function of the package.  A constructor's result is      *)
(* stored in err; a method of *MessageError is called on err.              *)
(***************************************************************************)
CallMessageError ==
    \E f \in Funcs, desc \in Descs :
        /\ err' = messageError(f, desc)
        /\ built' = [ctor |-> "messageError", f |-> f, desc |-> desc]
        /\ last' = Call("messageError", NilPtr, NilError, Return(err'))

CallMessageErrorWithCode ==
    \E funcName \in Funcs, c \in Codes, desc \in Descs :
        /\ err' = messageErrorWithCode(funcName, c, desc)
        /\ built' = [ctor |-> "messageErrorWithCode", funcName |-> funcName,
                     c |-> c, desc |-> desc]
        /\ last' = Call("messageErrorWithCode", NilPtr, NilError, Return(err'))

CallErrorCodeString ==
    \E e \in Codes :
        /\ last' = Call("ErrorCode.String", e, NilError, ErrorCodeString(e))
        /\ UNCHANGED <<err, built>>

CallErrorCodeError ==
    \E e \in Codes :
        /\ last' = Call("ErrorCode.Error", e, NilError, ErrorCodeError(e))
        /\ UNCHANGED <<err, built>>

CallErrorCodeIs ==
    \E e \in Codes, target \in Targets :
        /\ last' = Call("ErrorCode.Is", e, target, ErrorCodeIs(e, target))
        /\ UNCHANGED <<err, built>>

CallMessageErrorError ==
    /\ last' = Call("MessageError.Error", err, NilError, MessageErrorError(err))
    /\ UNCHANGED <<err, built>>

CallMessageErrorIs ==
    \E target \in Targets \cup BuiltTargets :
        /\ last' = Call("MessageError.Is", err, target, MessageErrorIs(err, target))
        /\ UNCHANGED <<err, built>>

CallMessageErrorUnwrap ==
    /\ last' = Call("MessageError.Unwrap", err, NilError, MessageErrorUnwrap(err))
    /\ UNCHANGED <<err, built>>

Next ==
    \/ CallMessageError
    \/ CallMessageErrorWithCode
    \/ CallErrorCodeString
    \/ CallErrorCodeError
    \/ CallErrorCodeIs
    \/ CallMessageErrorError
    \/ CallMessageErrorIs
    \/ CallMessageErrorUnwrap

Spec == Init /\ [][Next]_vars

(***************************************************************************)
(* Properties.                                                             *)
(***************************************************************************)
IsOp == {"ErrorCode.Is", "MessageError.Is"}
MessageErrorOps == {"MessageError.Error", "MessageError.Is", "MessageError.Unwrap"}
RenderOps == {"ErrorCode.String", "ErrorCode.Error"}

CarriesCode(t) == t.kind = "MessageError" /\ ~t.ptr.nil

\* C1: Is on a MessageError m with a MessageError target t returns true
\* exactly when m's ErrorCode equals t's ErrorCode, whatever their function
\* names and descriptions; with a bare ErrorCode target it returns true
\* exactly when the target equals m's ErrorCode.
C1_MessageErrorIsByCode ==
    (last.op = "MessageError.Is" /\ ~last.recv.nil) =>
        /\ CarriesCode(last.target) =>
              /\ ~last.panicked
              /\ last.ret = (last.recv.val.ErrorCode = last.target.ptr.val.ErrorCode)
        /\ last.target.kind = "ErrorCode" =>
              /\ ~last.panicked
              /\ last.ret = (last.target.code = last.recv.val.ErrorCode)

C1_Witness ==
    /\ last.op = "MessageError.Is"
    /\ ~last.recv.nil
    /\ CarriesCode(last.target)
    /\ last.recv.val.ErrorCode = last.target.ptr.val.ErrorCode
    /\ last.recv.val.Func # last.target.ptr.val.Func
    /\ last.recv.val.Description # last.target.ptr.val.Description
    /\ last.ret = TRUE

\* C2: Is on an ErrorCode c with a MessageError target returns true exactly
\* when the target's ErrorCode equals c; with an ErrorCode target it returns
\* true exactly when the target equals c; for declared and undeclared codes.
C2_ErrorCodeIsByCode ==
    last.op = "ErrorCode.Is" =>
        /\ CarriesCode(last.target) =>
              /\ ~last.panicked
              /\ last.ret = (last.target.ptr.val.ErrorCode = last.recv)
        /\ last.target.kind = "ErrorCode" =>
              /\ ~last.panicked
              /\ last.ret = (last.target.code = last.recv)

C2_Witness ==
    /\ last.op = "ErrorCode.Is"
    /\ last.recv \notin 0..7
    /\ CarriesCode(last.target)
    /\ last.target.ptr.val.ErrorCode = last.recv
    /\ last.ret = TRUE

\* C3: String and Error of each of the eight declared codes return a
\* non-empty string: the registered name for ordinals 4 to 7, and
\* "Unknown ErrorCode (n)" with n the ordinal for ordinals 0 to 3.
RenderedNames ==
    << "Unknown ErrorCode (0)", "Unknown ErrorCode (1)",
       "Unknown ErrorCode (2)", "Unknown ErrorCode (3)",
       "ErrTooManyManyMixPairReqs", "ErrMixPairReqScriptClassTooLong",
       "ErrTooManyMixPairReqUTXOs", "ErrTooManyPrevMixMsgs" >>

C3_DeclaredCodesRender ==
    (last.op \in RenderOps /\ last.recv \in 0..7) =>
        /\ ~last.panicked
        /\ last.ret # ""
        /\ last.ret = RenderedNames[last.recv + 1]

C3_Witness ==
    /\ last.op = "ErrorCode.Error"
    /\ last.recv = 7
    /\ last.ret = "ErrTooManyPrevMixMsgs"

C5_MessageErrorRender ==
    (last.op = "MessageError.Error" /\ ~last.recv.nil) =>
        /\ ~last.panicked
        /\ last.recv.val.Func # "" =>
              last.ret = last.recv.val.Func \o ": " \o last.recv.val.Description
        /\ last.recv.val.Func = "" => last.ret = last.recv.val.Description
        /\ built = [ctor |-> "messageError", f |-> "", desc |-> "bad thing"] =>
              last.ret = "bad thing"
        /\ built = [ctor |-> "messageErrorWithCode", funcName |-> "decodeFoo",
                    c |-> 4, desc |-> "exceeds max"] =>
              last.ret = "decodeFoo: exceeds max"

C5_Witness ==
    /\ last.op = "MessageError.Error"
    /\ built = [ctor |-> "messageError", f |-> "", desc |-> "bad thing"]
    /\ last.ret = "bad thing"

\* C6: Is of an ErrorCode and Is of a MessageError return false, without
\* failing, for every target that is neither a MessageError nor an ErrorCode
\* (a nil error included), whatever the receiver.
C6_UnrelatedTargetNoMatch ==
    (last.op \in IsOp /\ last.target.kind \notin {"MessageError", "ErrorCode"}) =>
        /\ ~last.panicked
        /\ last.ret = FALSE

C6_Witness ==
    /\ last.op = "MessageError.Is"
    /\ ~last.recv.nil
    /\ last.recv.val.ErrorCode = 5
    /\ last.target = OtherError
    /\ last.ret = FALSE

\* C7: a MessageError built by messageError(f, d) carries the zero value,
\* which is ErrVarBytesTooLong (ordinal 0), and by category comparison is
\* indistinguishable from messageErrorWithCode(f', ErrVarBytesTooLong, d'):
\* each matches the other, both match the bare ErrVarBytesTooLong, both
\* unwrap to the same code, and neither matches any other category.
ZeroCoded ==
    \/ built.ctor = "messageError"
    \/ built.ctor = "messageErrorWithCode" /\ built.c = 0

UncategorizedTargets ==
    {MessageErrorErr(messageError(f, desc)) : f \in Funcs, desc \in Descs}

ZeroCodedTargets ==
    UncategorizedTargets
        \cup {MessageErrorErr(messageErrorWithCode(f, 0, desc)) :
                f \in Funcs, desc \in Descs}

C7_UncategorizedIsVarBytesTooLong ==
    /\ ErrVarBytesTooLong = 0
    /\ built.ctor = "messageError" =>
          ~err.nil /\ err.val.ErrorCode = ErrVarBytesTooLong
    /\ (last.op = "MessageError.Is" /\ ZeroCoded) =>
          /\ last.target \in ZeroCodedTargets => ~last.panicked /\ last.ret = TRUE
          /\ last.target.kind = "ErrorCode" =>
                ~last.panicked /\ last.ret = (last.target.code = 0)
          /\ (CarriesCode(last.target) /\ last.target.ptr.val.ErrorCode # 0) =>
                ~last.panicked /\ last.ret = FALSE
    /\ (last.op = "MessageError.Is" /\ ~last.recv.nil
            /\ last.target \in UncategorizedTargets) =>
          ~last.panicked /\ last.ret = (last.recv.val.ErrorCode = 0)
    /\ (last.op = "ErrorCode.Is" /\ last.target = MessageErrorErr(err) /\ ZeroCoded) =>
          ~last.panicked /\ last.ret = (last.recv = 0)
    /\ (last.op = "MessageError.Unwrap" /\ ZeroCoded) =>
          ~last.panicked /\ last.ret = ErrorCodeErr(0)

C7_Witness ==
    /\ last.op = "MessageError.Is"
    /\ built.ctor = "messageError"
    /\ last.target = MessageErrorErr(Ptr([Func |-> "decodeFoo", ErrorCode |-> 0,
                                          Description |-> "exceeds max"]))
    /\ last.recv.val.Func = ""
    /\ last.ret = TRUE

\* C8: the text Error returns for a MessageError does not depend on its
\* ErrorCode: it is the text rendered for a MessageError with the same
\* function name and description carrying any other code.
C8_RenderIgnoresCode ==
    (last.op = "MessageError.Error" /\ ~last.recv.nil) =>
        \A c \in Codes :
            LET other == messageErrorWithCode(last.recv.val.Func, c,
                                              last.recv.val.Description)
            IN  MessageErrorError(other) = [panicked |-> FALSE, ret |-> last.ret]

C8_Witness ==
    /\ last.op = "MessageError.Error"
    /\ ~last.recv.nil
    /\ last.recv.val.ErrorCode = 6
    /\ last.recv.val.Func = "decodeFoo"
    /\ last.ret = "decodeFoo: bad thing"

\* C9: no operation fails: with a receiver that is not nil, every call
\* returns a value, whatever the target (a nil *MessageError included).
C9_NoOperationFails ==
    (last.op \in MessageErrorOps => ~last.recv.nil) => ~last.panicked

\* C10: the eight declared codes have the ordinals 0 to 7 in declaration
\* order, and rendering is deterministic and injective on them: two calls
\* of String or Error on declared codes return the same string exactly when
\* the codes are the same.
C10_DeclaredCodesRenderInjective ==
    /\ [](<< ErrVarBytesTooLong, ErrMsgInvalidForPVer, ErrInvalidMsg,
             ErrMalformedStrictString, ErrTooManyManyMixPairReqs,
             ErrMixPairReqScriptClassTooLong, ErrTooManyMixPairReqUTXOs,
             ErrTooManyPrevMixMsgs >> = << 0, 1, 2, 3, 4, 5, 6, 7 >>)
    /\ [][(/\ last.op \in RenderOps
           /\ last'.op \in RenderOps
           /\ last.recv \in DeclaredCodes
           /\ last'.recv \in DeclaredCodes)
            => /\ ~last.panicked /\ ~last'.panicked
               /\ (last.ret = last'.ret) <=> (last.recv = last'.recv)]_vars

C10_Witness ==
    /\ last.op = "ErrorCode.String"
    /\ last.recv = 3
    /\ last.ret = "Unknown ErrorCode (3)"

====
